---- MODULE Spec2Model ----
(***************************************************************************)
(* A model of pkg/state/etcd.go: the etcd-backed repository.  The etcd     *)
(* store is modelled by the contract of the client calls the source makes  *)
(* (Get, Put, Delete, Txn, Watch, leases); the repository's operations are *)
(* translated from the source, one action per step between two calls that  *)
(* can interleave with other processes.                                    *)
(***************************************************************************)
EXTENDS Integers, Sequences, FiniteSets, TLC

\* ------------------------------------------------------------------ bounds

\* The number of mutations (revisions) the store takes in one run.
MaxRev == 3

\* The same, in the runs that are checked for what eventually happens.
MaxLiveRev == 2

\* The lease time-to-live, in ticks of the store's clock.
TTL == 1

\* Keys <<1>> and <<1, 1>>: <<1>> is a prefix of both, <<1, 1>> of one.
KeySeq == << <<1>>, <<1, 1>> >>

Keys == {KeySeq[i] : i \in 1..Len(KeySeq)}

\* A zero-length value and a non-empty one.
Vals == {<<>>, <<7>>}

Clients == {"c1", "c2"}

\* The keys the heartbeat calls are made with.
LeaseKeys == {<<1>>}

\* Each caller registers a value of its own (its node's name).
LeaseVals(c) == IF c = "c1" THEN {<<7>>} ELSE {<<8>>}

NoLease == "none"

VARIABLES
    kv,         \* the store: key -> [live, value, lease]
    log,        \* the store's mutations, log[r] committed at revision r
    pc,         \* client -> its position in the call it is making
    res,        \* client -> what its last call returned
    hb,         \* client -> the heartbeat object its call made (key, value)
    lease,      \* client -> the store's lease granted to its heartbeat
    ka,         \* client -> its keepalive task: off, running, stopped
    closedCh,   \* client -> the Closed channel its call made
    cctx,       \* client -> whether the context it passed is canceled
    lastOp,     \* key -> the last call that wrote it (history, for the claims)
    prev,       \* client -> what its PutIfNotExist call returned, if no error (history)
    wpc,        \* the Watch/WatchPrefix call: idle, got, init, returned, failed
    wreq,       \* its arguments: [prefix, key]
    wresp,      \* the response of its snapshot read: [Kvs, Revision]
    wctx,       \* whether the context passed to it is canceled
    wc,         \* the raw change stream client.Watch returned: [state, next]
    ch,         \* the channel it made: [made, cap, buf, closes]
    initq,      \* the initial events it has still to send
    rpc,        \* handleWatchEvent: off, recv, err, events, closed, done
    rbatch,     \* the events of the current raw response still to relay
    delivered   \* the events the caller has received from the channel

storeVars == <<kv, log>>
histVars == <<lastOp, prev>>
clientVars == <<pc, res>>
leaseVars == <<hb, lease, ka, closedCh, cctx>>
repoVars == <<pc, res, hb, lease, ka, closedCh, cctx>>
watchVars == <<wpc, wreq, wresp, wctx, wc, ch, initq, rpc, rbatch, delivered>>

\* ------------------------------------------------------------------- store

Absent == [live |-> FALSE, value |-> <<>>, lease |-> NoLease]

Entry(v, l) == [live |-> TRUE, value |-> v, lease |-> l]

Revision == Len(log)

PutEvent(k, v) == [type |-> "PUT", key |-> k, value |-> v]

DeleteEvent(k) == [type |-> "DELETE", key |-> k, value |-> <<>>]

\* p is a prefix of k (etcd.WithPrefix's range).
IsPrefix(p, k) ==
    /\ Len(p) <= Len(k)
    /\ \A i \in 1..Len(p) : p[i] = k[i]

\* The keys a request names: the key itself, or every key under the prefix.
InRange(key, withPrefix, k) == IF withPrefix THEN IsPrefix(key, k) ELSE k = key

\* The store as it was at revision r.
RECURSIVE StateAt(_)
StateAt(r) ==
    IF r = 0 THEN [k \in Keys |-> Absent]
    ELSE LET e == log[r]
             s == StateAt(r - 1)
         IN  [s EXCEPT ![e.key] = IF e.type = "PUT"
                                  THEN Entry(e.value, NoLease) ELSE Absent]

\* client.Get: the live entries in range at revision r, in key order, and r.
KvsOf(s, key, withPrefix) ==
    LET hit(i) == s[KeySeq[i]].live /\ InRange(key, withPrefix, KeySeq[i])
        idx == SelectSeq([i \in 1..Len(KeySeq) |-> i], hit)
    IN  [j \in 1..Len(idx) |-> [Key |-> KeySeq[idx[j]], Value |-> s[KeySeq[idx[j]]].value]]

GetResponse(key, withPrefix, r) ==
    [Kvs |-> KvsOf(StateAt(r), key, withPrefix), Revision |-> r]

\* client.Put's effect on the store: one new revision.
StorePut(k, v, l) ==
    /\ kv' = [kv EXCEPT ![k] = Entry(v, l)]
    /\ log' = Append(log, PutEvent(k, v))

\* client.Delete's / OpDelete's effect: a revision only if the key was there.
StoreDelete(k) ==
    IF kv[k].live
    THEN /\ kv' = [kv EXCEPT ![k] = Absent]
         /\ log' = Append(log, DeleteEvent(k))
    ELSE UNCHANGED storeVars

\* ------------------------------------------------------- Get/Put/Delete

\* What a call returned: the values the function returns (val, ok, err, ch: whether
\* a channel came back), the arguments it was called with (key, arg), and at: the
\* revision of the store its request was evaluated at.
NoResult ==
    [op |-> "none", key |-> <<>>, arg |-> <<>>, val |-> <<>>, ok |-> FALSE,
     err |-> "nil", ch |-> FALSE, at |-> 0]

Result(op, k, arg, val, ok, err, chan) ==
    [op |-> op, key |-> k, arg |-> arg, val |-> val, ok |-> ok, err |-> err, ch |-> chan,
     at |-> Revision]

\* A PutIfNotExist call that returned (false, nil, nil).
Lost(r) == r.op = "PutIfNotExist" /\ r.err = "nil" /\ ~r.ok

\* A PutIfNotExist call that returned (true, ch, nil).
Won(r) == r.op = "PutIfNotExist" /\ r.err = "nil" /\ r.ok

\* The last call that wrote a key.
Wrote(k, op, v) ==
    /\ lastOp' = [lastOp EXCEPT ![k] = [op |-> op, val |-> v]]
    /\ UNCHANGED prev

\* getValue: the first entry's value, or why there is none.
getValueNoEmptyCheck(key, resp) ==
    IF Len(resp.Kvs) = 0 THEN [val |-> <<>>, err |-> "NotExist"]
    ELSE [val |-> resp.Kvs[1].Value, err |-> "nil"]

getValueNotExistAsEmpty(key, resp) ==
    IF Len(resp.Kvs) = 0 \/ Len(resp.Kvs[1].Value) = 0 THEN [val |-> <<>>, err |-> "Empty"]
    ELSE [val |-> resp.Kvs[1].Value, err |-> "nil"]

getValue(key, resp) ==
    IF Len(resp.Kvs) = 0 THEN [val |-> <<>>, err |-> "NotExist"]
    ELSE IF Len(resp.Kvs[1].Value) = 0 THEN [val |-> <<>>, err |-> "Empty"]
    ELSE [val |-> resp.Kvs[1].Value, err |-> "nil"]

Returns(c, r) ==
    /\ pc' = [pc EXCEPT ![c] = "done"]
    /\ res' = [res EXCEPT ![c] = r]

Get(c, key) ==
    /\ pc[c] = "idle"
    /\ \/ LET g == getValue(key, GetResponse(key, FALSE, Revision))
          IN  Returns(c, Result("Get", key, <<>>, g.val, FALSE, g.err, FALSE))
       \/ Returns(c, Result("Get", key, <<>>, <<>>, FALSE, "transport", FALSE))
    /\ UNCHANGED <<storeVars, leaseVars, histVars>>
    /\ UNCHANGED watchVars

Put(c, key, val) ==
    /\ pc[c] = "idle"
    /\ Len(log) < MaxRev
    /\ \/ /\ StorePut(key, val, NoLease)
          /\ Wrote(key, "Put", val)
          /\ Returns(c, Result("Put", key, val, <<>>, FALSE, "nil", FALSE))
       \/ /\ UNCHANGED <<storeVars, histVars>>
          /\ Returns(c, Result("Put", key, val, <<>>, FALSE, "transport", FALSE))
    /\ UNCHANGED leaseVars
    /\ UNCHANGED watchVars

Delete(c, key) ==
    /\ pc[c] = "idle"
    /\ Len(log) < MaxRev
    /\ \/ /\ StoreDelete(key)
          /\ Wrote(key, "Delete", <<>>)
          /\ Returns(c, Result("Delete", key, <<>>, <<>>, FALSE, "nil", FALSE))
       \/ /\ UNCHANGED <<storeVars, histVars>>
          /\ Returns(c, Result("Delete", key, <<>>, <<>>, FALSE, "transport", FALSE))
    /\ UNCHANGED leaseVars
    /\ UNCHANGED watchVars

\* etcd.Compare(etcd.Value(key), "=", value): false for a key that is absent.
CompareValueIgnoringValue(key, value) == kv[key].live

CompareValue(key, value) == kv[key].live /\ kv[key].value = value

\* The transaction If(cmp).Then(OpDelete(key)).Commit() is one atomic step of the
\* store; DeleteWithValue returns resp.Succeeded.
DeleteWithValueNoDelete(c, key, value) ==
    /\ pc[c] = "idle"
    /\ Len(log) < MaxRev
    /\ UNCHANGED <<storeVars, histVars>>
    /\ \/ Returns(c, Result("DeleteWithValue", key, value, <<>>,
                             CompareValue(key, value), "nil", FALSE))
       \/ Returns(c, Result("DeleteWithValue", key, value, <<>>, FALSE, "transport", FALSE))
    /\ UNCHANGED leaseVars
    /\ UNCHANGED watchVars

DeleteWithValue(c, key, value) ==
    /\ pc[c] = "idle"
    /\ Len(log) < MaxRev
    /\ \/ /\ IF CompareValue(key, value)
             THEN StoreDelete(key) /\ Wrote(key, "DeleteWithValue", <<>>)
             ELSE UNCHANGED <<storeVars, histVars>>
          /\ Returns(c, Result("DeleteWithValue", key, value, <<>>,
                               CompareValue(key, value), "nil", FALSE))
       \/ /\ UNCHANGED <<storeVars, histVars>>
          /\ Returns(c, Result("DeleteWithValue", key, value, <<>>, FALSE, "transport", FALSE))
    /\ UNCHANGED leaseVars
    /\ UNCHANGED watchVars

\* The caller takes the result and is free to call again.
Return(c) ==
    /\ pc[c] = "done"
    /\ pc' = [pc EXCEPT ![c] = "idle"]
    /\ res' = [res EXCEPT ![c] = NoResult]
    /\ prev' = [prev EXCEPT ![c] = IF Lost(res[c]) \/ Won(res[c]) THEN res[c] ELSE @]
    /\ UNCHANGED <<storeVars, leaseVars, lastOp>>
    /\ UNCHANGED watchVars

\* ------------------------------------------------ Heartbeat, PutIfNotExist

NoHeartbeat == [key |-> <<>>, value |-> <<>>]

\* newHeartbeat(client, key, value, ttl)
newHeartbeat(key, value) == [key |-> key, value |-> value]

\* A lease of the store: none, granted (ttl ticks left) or expired.
NoGrant == [state |-> "none", ttl |-> 0]

\* A Closed channel: whether it was made, and how often it was closed.
NoChan == [made |-> FALSE, closes |-> 0]

\* client.Grant(ctx, ttl): a new lease, or an error (always one when the context
\* is canceled).
Grant(c) == lease' = [lease EXCEPT ![c] = [state |-> "granted", ttl |-> TTL]]

\* The goroutine of Heartbeat and PutIfNotExist: make(chan Closed), then
\* go func() { defer close(ch); h.keepAlive(ctx, ..) }().
StartKeepAlive(c) ==
    /\ closedCh' = [closedCh EXCEPT ![c] = [made |-> TRUE, closes |-> 0]]
    /\ ka' = [ka EXCEPT ![c] = "running"]

\* Heartbeat, to the end of the lease grant of h.grantKeepAliveLease.
HeartbeatGrantKeepAliveOnError(c, key, value) ==
    /\ pc[c] = "idle"
    /\ lease[c].state = "none"
    /\ hb' = [hb EXCEPT ![c] = newHeartbeat(key, value)]
    /\ \/ /\ ~cctx[c]
          /\ Grant(c)
          /\ pc' = [pc EXCEPT ![c] = "hbGranted"]
          /\ UNCHANGED <<res, ka, closedCh>>
       \/ /\ Returns(c, Result("Heartbeat", key, value, <<>>, FALSE, "transport", TRUE))
          /\ StartKeepAlive(c)
          /\ UNCHANGED lease
    /\ UNCHANGED <<storeVars, cctx, histVars>>
    /\ UNCHANGED watchVars

HeartbeatGrant(c, key, value) ==
    /\ pc[c] = "idle"
    /\ lease[c].state = "none"
    /\ hb' = [hb EXCEPT ![c] = newHeartbeat(key, value)]
    /\ \/ /\ ~cctx[c]
          /\ Grant(c)
          /\ pc' = [pc EXCEPT ![c] = "hbGranted"]
          /\ UNCHANGED res
       \/ /\ Returns(c, Result("Heartbeat", key, value, <<>>, FALSE, "transport", FALSE))
          /\ UNCHANGED lease
    /\ UNCHANGED <<storeVars, ka, closedCh, cctx, histVars>>
    /\ UNCHANGED watchVars

\* Heartbeat, from the put of the key under the lease to its return.  The store
\* refuses a put under a lease that has expired.
HeartbeatPut(c) ==
    /\ pc[c] = "hbGranted"
    /\ Len(log) < MaxRev
    /\ \/ /\ ~cctx[c]
          /\ lease[c].state = "granted"
          /\ StorePut(hb[c].key, hb[c].value, c)
          /\ Wrote(hb[c].key, "Heartbeat", hb[c].value)
          /\ StartKeepAlive(c)
          /\ Returns(c, Result("Heartbeat", hb[c].key, hb[c].value, <<>>, FALSE, "nil", TRUE))
       \/ /\ Returns(c, Result("Heartbeat", hb[c].key, hb[c].value, <<>>, FALSE, "transport", FALSE))
          /\ UNCHANGED <<storeVars, ka, closedCh, histVars>>
    /\ UNCHANGED <<hb, lease, cctx>>
    /\ UNCHANGED watchVars

\* PutIfNotExist, to the end of the lease grant of h.PutIfNotExist.
PutIfNotExistGrant(c, key, value) ==
    /\ pc[c] = "idle"
    /\ lease[c].state = "none"
    /\ hb' = [hb EXCEPT ![c] = newHeartbeat(key, value)]
    /\ \/ /\ ~cctx[c]
          /\ Grant(c)
          /\ pc' = [pc EXCEPT ![c] = "pineGranted"]
          /\ UNCHANGED res
       \/ /\ Returns(c, Result("PutIfNotExist", key, value, <<>>, FALSE, "transport", FALSE))
          /\ UNCHANGED lease
    /\ UNCHANGED <<storeVars, ka, closedCh, cctx, histVars>>
    /\ UNCHANGED watchVars

\* What PutIfNotExist does with (success, err) of h.PutIfNotExist: return the
\* error; or start the keepalive task and return the channel; or return false.
PutIfNotExistIgnoringSuccess(c, success, err) ==
    IF err # "nil"
    THEN /\ Returns(c, Result("PutIfNotExist", hb[c].key, hb[c].value, <<>>, FALSE, err, FALSE))
         /\ UNCHANGED <<ka, closedCh>>
    ELSE /\ StartKeepAlive(c)
         /\ Returns(c, Result("PutIfNotExist", hb[c].key, hb[c].value, <<>>, TRUE, "nil", TRUE))

PutIfNotExistKeepAliveAlways(c, success, err) ==
    IF err # "nil"
    THEN /\ Returns(c, Result("PutIfNotExist", hb[c].key, hb[c].value, <<>>, FALSE, err, FALSE))
         /\ UNCHANGED <<ka, closedCh>>
    ELSE /\ StartKeepAlive(c)
         /\ Returns(c, Result("PutIfNotExist", hb[c].key, hb[c].value, <<>>, success, "nil", success))

PutIfNotExistInverted(c, success, err) ==
    IF err # "nil"
    THEN /\ Returns(c, Result("PutIfNotExist", hb[c].key, hb[c].value, <<>>, FALSE, err, FALSE))
         /\ UNCHANGED <<ka, closedCh>>
    ELSE IF ~success
    THEN /\ StartKeepAlive(c)
         /\ Returns(c, Result("PutIfNotExist", hb[c].key, hb[c].value, <<>>, TRUE, "nil", TRUE))
    ELSE /\ Returns(c, Result("PutIfNotExist", hb[c].key, hb[c].value, <<>>, FALSE, "nil", FALSE))
         /\ UNCHANGED <<ka, closedCh>>

PutIfNotExistReturn(c, success, err) ==
    IF err # "nil"
    THEN /\ Returns(c, Result("PutIfNotExist", hb[c].key, hb[c].value, <<>>, FALSE, err, FALSE))
         /\ UNCHANGED <<ka, closedCh>>
    ELSE IF success
    THEN /\ StartKeepAlive(c)
         /\ Returns(c, Result("PutIfNotExist", hb[c].key, hb[c].value, <<>>, TRUE, "nil", TRUE))
    ELSE /\ Returns(c, Result("PutIfNotExist", hb[c].key, hb[c].value, <<>>, FALSE, "nil", FALSE))
         /\ UNCHANGED <<ka, closedCh>>

\* The condition of h.PutIfNotExist's transaction: the key does not exist.
NotExist(key) == ~kv[key].live

\* PutIfNotExist, from the transaction of h.PutIfNotExist (if the key does not
\* exist, put it under the lease; else nothing) to its return.  The store refuses
\* a put under a lease that has expired.
PutIfNotExistTxn(c) ==
    /\ pc[c] = "pineGranted"
    /\ Len(log) < MaxRev
    /\ \/ /\ ~cctx[c]
          /\ lease[c].state = "granted" \/ kv[hb[c].key].live
          /\ IF NotExist(hb[c].key)
             THEN StorePut(hb[c].key, hb[c].value, c) /\ Wrote(hb[c].key, "PutIfNotExist", hb[c].value)
             ELSE UNCHANGED <<storeVars, histVars>>
          /\ PutIfNotExistReturn(c, NotExist(hb[c].key), "nil")
       \/ /\ UNCHANGED <<storeVars, histVars>>
          /\ PutIfNotExistReturn(c, FALSE, "transport")
    /\ UNCHANGED <<hb, lease, cctx>>
    /\ UNCHANGED watchVars

\* h.keepAlive renews the lease: the store restarts the lease's countdown.
KeepAliveRenew(c) ==
    /\ ka[c] = "running"
    /\ ~cctx[c]
    /\ lease[c].state = "granted"
    /\ lease[c].ttl < TTL
    /\ lease' = [lease EXCEPT ![c].ttl = TTL]
    /\ UNCHANGED <<storeVars, clientVars, hb, ka, closedCh, cctx, histVars>>
    /\ UNCHANGED watchVars

\* h.keepAlive returns when the context is canceled, when the store says the
\* lease is gone, or when the renewal stream closes for good.
keepAliveReturns(c, why) ==
    \/ why = "canceled" /\ cctx[c]
    \/ why = "expired" /\ lease[c].state = "expired"
    \/ why = "stream"

\* The goroutine's end: h.keepAlive has returned and the deferred close(ch) runs.
KeepAliveExitNoClose(c, why) ==
    /\ ka[c] = "running"
    /\ keepAliveReturns(c, why)
    /\ ka' = [ka EXCEPT ![c] = "stopped"]
    /\ UNCHANGED <<storeVars, clientVars, hb, lease, closedCh, cctx, histVars>>
    /\ UNCHANGED watchVars

KeepAliveExit(c, why) ==
    /\ ka[c] = "running"
    /\ keepAliveReturns(c, why)
    /\ ka' = [ka EXCEPT ![c] = "stopped"]
    /\ closedCh' = [closedCh EXCEPT ![c].closes = @ + 1]
    /\ UNCHANGED <<storeVars, clientVars, hb, lease, cctx, histVars>>
    /\ UNCHANGED watchVars

\* The caller cancels the context it passed to Heartbeat or PutIfNotExist.
Cancel(c) ==
    /\ ~cctx[c]
    /\ cctx' = [cctx EXCEPT ![c] = TRUE]
    /\ UNCHANGED <<storeVars, clientVars, hb, lease, ka, closedCh, histVars>>
    /\ UNCHANGED watchVars

\* The store's clock: every granted lease has one tick less to live.
Tick ==
    /\ \E c \in Clients : lease[c].state = "granted" /\ lease[c].ttl > 0
    /\ lease' = [c \in Clients |->
                    IF lease[c].state = "granted" /\ lease[c].ttl > 0
                    THEN [lease[c] EXCEPT !.ttl = @ - 1] ELSE lease[c]]
    /\ UNCHANGED <<storeVars, clientVars, hb, ka, closedCh, cctx, histVars>>
    /\ UNCHANGED watchVars

\* The store expires a lease that was not renewed in time, and deletes the key
\* attached to it.  (A lease expires once: these deletions are not counted against
\* MaxRev, so that an expiry that is due can always happen.)
LeaseExpire(c) ==
    /\ lease[c].state = "granted"
    /\ lease[c].ttl = 0
    /\ lease' = [lease EXCEPT ![c].state = "expired"]
    /\ IF \E k \in Keys : kv[k].live /\ kv[k].lease = c
       THEN LET k == CHOOSE k \in Keys : kv[k].live /\ kv[k].lease = c
            IN  StoreDelete(k) /\ Wrote(k, "LeaseExpire", <<>>)
       ELSE UNCHANGED <<storeVars, histVars>>
    /\ UNCHANGED <<clientVars, hb, ka, closedCh, cctx>>
    /\ UNCHANGED watchVars

\* ------------------------------------------------------ Watch, WatchPrefix

\* &Event{Type, Key, Value} and &Event{Err: err} (Type, Key, Value left zero).
Event(type, key, value) == [Type |-> type, Key |-> key, Value |-> value, Err |-> "nil"]

ErrEvent(err) == [Type |-> "", Key |-> <<>>, Value |-> <<>>, Err |-> err]

NoResponse == [Kvs |-> <<>>, Revision |-> 0]

NoChannel == [made |-> FALSE, cap |-> 0, buf |-> <<>>, closes |-> 0]

\* etcd.WithRev(resp.Header.Revision + 1): the revision the change stream starts at.
WithRevSnapshot(resp) == IF resp.Revision = 0 THEN 1 ELSE resp.Revision

WithRev(resp) == resp.Revision + 1

\* make(chan *Event, 1) in Watch, make(chan *Event) in WatchPrefix.
ChanCapUnbuffered(req) == 0

ChanCap(req) == IF req.prefix THEN 0 ELSE 1

\* The events Watch / WatchPrefix sends before it starts the relay: Watch one for
\* the key if it exists with a non-empty value, WatchPrefix one per entry.
InitEventsNone(req, resp) == <<>>

InitEventsSkipEmpty(req, resp) ==
    LET nonEmpty(e) == Len(e.Value) # 0
        all == [i \in 1..Len(resp.Kvs) |->
                    Event("Modify", IF req.prefix THEN resp.Kvs[i].Key ELSE req.key,
                          resp.Kvs[i].Value)]
    IN  SelectSeq(all, nonEmpty)

InitEvents(req, resp) ==
    IF req.prefix
    THEN [i \in 1..Len(resp.Kvs) |-> Event("Modify", resp.Kvs[i].Key, resp.Kvs[i].Value)]
    ELSE IF Len(resp.Kvs) # 0 /\ Len(resp.Kvs[1].Value) # 0
    THEN <<Event("Modify", req.key, resp.Kvs[1].Value)>>
    ELSE <<>>

\* The snapshot read: r.get (linearizable) in Watch, a serializable Get WithPrefix
\* in WatchPrefix, which may answer from any revision the member has reached.
WatchGet(prefix, key) ==
    /\ wpc = "idle"
    /\ wreq' = [prefix |-> prefix, key |-> key]
    /\ \/ /\ ~wctx
          /\ \E r \in 0..Revision :
                /\ prefix \/ r = Revision
                /\ wresp' = GetResponse(key, prefix, r)
          /\ wpc' = "got"
       \/ /\ wpc' = "failed"
          /\ UNCHANGED wresp
    /\ UNCHANGED <<storeVars, repoVars, histVars, wctx, wc, ch, initq, rpc, rbatch, delivered>>

\* client.Watch opens the change stream, and the channel is made.
WatchOpen ==
    /\ wpc = "got"
    /\ wc' = [state |-> "open", next |-> WithRev(wresp)]
    /\ ch' = [made |-> TRUE, cap |-> ChanCap(wreq), buf |-> <<>>, closes |-> 0]
    /\ initq' = InitEvents(wreq, wresp)
    /\ wpc' = "init"
    /\ UNCHANGED <<storeVars, repoVars, histVars, wreq, wresp, wctx, rpc, rbatch, delivered>>

\* The event type of a raw notification.
Convert(e) == Event(IF e.type = "DELETE" THEN "Delete" ELSE "Modify", e.key, e.value)

\* A goroutine is inside notifyWatchEvent's select: the call sending an initial
\* event, or the relay sending an error, a converted event or "watch is closed".
InNotify ==
    \/ wpc = "init" /\ initq # <<>>
    \/ rpc \in {"err", "events", "closed"}

NotifyEventLastOfBatch ==
    IF wpc = "init" THEN Head(initq)
    ELSE IF rpc = "err" THEN ErrEvent("etcd")
    ELSE IF rpc = "events" THEN Convert(rbatch[Len(rbatch)])
    ELSE ErrEvent("watch is closed")

NotifyEvent ==
    IF wpc = "init" THEN Head(initq)
    ELSE IF rpc = "err" THEN ErrEvent("etcd")
    ELSE IF rpc = "events" THEN Convert(Head(rbatch))
    ELSE ErrEvent("watch is closed")

\* case <-ctx.Done() of notifyWatchEvent's select.
ctxDoneNever == FALSE

ctxDone == wctx

\* close(ch) of a failed setup; the deferred close(ech) of handleWatchEvent.
closeTwice(n) == n + 2

close(n) == n + 1

deferClose(n) == n + 1

\* What follows notifyWatchEvent's return (ok) where it was called; buf is the
\* channel's buffer after it.  In the setup: the next initial event, or close(ch)
\* and an error.  In the relay: the next event of the batch, the next response,
\* or return (and the deferred close).
AfterNotify(ok, buf) ==
    IF wpc = "init"
    THEN /\ initq' = IF ok THEN Tail(initq) ELSE initq
         /\ wpc' = IF ok THEN "init" ELSE "failed"
         /\ ch' = [ch EXCEPT !.buf = buf, !.closes = IF ok THEN @ ELSE close(@)]
         /\ UNCHANGED <<rpc, rbatch>>
    ELSE LET next == CASE ~ok -> "done"
                       [] ok /\ rpc = "closed" -> "done"
                       [] ok /\ rpc = "err" -> IF rbatch # <<>> THEN "events" ELSE "recv"
                       [] ok /\ rpc = "events" -> IF Tail(rbatch) # <<>> THEN "events" ELSE "recv"
         IN  /\ rpc' = next
             /\ rbatch' = IF ok /\ rpc = "events" THEN Tail(rbatch) ELSE rbatch
             /\ ch' = [ch EXCEPT !.buf = buf,
                                 !.closes = IF next = "done" THEN deferClose(@) ELSE @]
             /\ UNCHANGED <<wpc, initq>>

\* case ch <- event, the buffer having room.
NotifySendOrDrop ==
    /\ InNotify
    /\ AfterNotify(TRUE, IF Len(ch.buf) < ch.cap THEN Append(ch.buf, NotifyEvent) ELSE ch.buf)
    /\ UNCHANGED <<storeVars, repoVars, histVars, wreq, wresp, wctx, wc, delivered>>

NotifySend ==
    /\ InNotify
    /\ Len(ch.buf) < ch.cap
    /\ AfterNotify(TRUE, Append(ch.buf, NotifyEvent))
    /\ UNCHANGED <<storeVars, repoVars, histVars, wreq, wresp, wctx, wc, delivered>>

\* case ch <- event, the caller receiving from the channel the call returned.
NotifyRecv ==
    /\ InNotify
    /\ ch.buf = <<>>
    /\ wpc = "returned"
    /\ delivered' = Append(delivered, NotifyEvent)
    /\ AfterNotify(TRUE, ch.buf)
    /\ UNCHANGED <<storeVars, repoVars, histVars, wreq, wresp, wctx, wc>>

\* case <-ctx.Done(): notifyWatchEvent returns false.
NotifyCanceled ==
    /\ InNotify
    /\ ctxDone
    /\ AfterNotify(FALSE, ch.buf)
    /\ UNCHANGED <<storeVars, repoVars, histVars, wreq, wresp, wctx, wc, delivered>>

\* go r.handleWatchEvent(ctx, wch, ch); return ch, nil
WatchReturn ==
    /\ wpc = "init"
    /\ initq = <<>>
    /\ wpc' = "returned"
    /\ rpc' = "recv"
    /\ UNCHANGED <<storeVars, repoVars, histVars, wreq, wresp, wctx, wc, ch, initq, rbatch, delivered>>

\* The raw notifications of revisions lo..hi for the watched key or prefix.
RawEvents(req, lo, hi) ==
    LET hit(e) == InRange(req.key, req.prefix, e.key)
    IN  SelectSeq(SubSeq(log, lo, hi), hit)

\* for watchResp := range wc: the next response of the raw stream.  A batch of the
\* notifications since the last one; or a response that carries an error, after
\* which the stream is closed; or the end of a closed stream.
RelayRecv ==
    /\ rpc = "recv"
    /\ \/ /\ wc.state = "open"
          /\ \E hi \in wc.next..Revision :
                /\ RawEvents(wreq, wc.next, hi) # <<>>
                /\ rbatch' = RawEvents(wreq, wc.next, hi)
                /\ wc' = [wc EXCEPT !.next = hi + 1]
          /\ rpc' = "events"
       \/ /\ wc.state = "error"
          /\ wc' = [wc EXCEPT !.state = "closed"]
          /\ rbatch' = <<>>
          /\ rpc' = "err"
       \/ /\ wc.state = "closed"
          /\ rpc' = "closed"
          /\ UNCHANGED <<wc, rbatch>>
    /\ UNCHANGED <<storeVars, repoVars, histVars, wpc, wreq, wresp, wctx, ch, initq, delivered>>

\* The store reports an error on the stream (the revision was compacted, say).
StreamError ==
    /\ wc.state = "open"
    /\ wc' = [wc EXCEPT !.state = "error"]
    /\ UNCHANGED <<storeVars, repoVars, histVars, wpc, wreq, wresp, wctx, ch, initq, rpc, rbatch, delivered>>

\* The store closes the stream.
StreamClose ==
    /\ wc.state = "open"
    /\ wc' = [wc EXCEPT !.state = "closed"]
    /\ UNCHANGED <<storeVars, repoVars, histVars, wpc, wreq, wresp, wctx, ch, initq, rpc, rbatch, delivered>>

\* The etcd client closes the stream of a canceled context.
StreamCanceled ==
    /\ wctx
    /\ wc.state \in {"open", "error"}
    /\ wc' = [wc EXCEPT !.state = "closed"]
    /\ UNCHANGED <<storeVars, repoVars, histVars, wpc, wreq, wresp, wctx, ch, initq, rpc, rbatch, delivered>>

\* The caller receives a buffered event from the channel the call returned.
ConsumerRecv ==
    /\ wpc = "returned"
    /\ ch.buf # <<>>
    /\ delivered' = Append(delivered, Head(ch.buf))
    /\ ch' = [ch EXCEPT !.buf = Tail(@)]
    /\ UNCHANGED <<storeVars, repoVars, histVars, wpc, wreq, wresp, wctx, wc, initq, rpc, rbatch>>

\* The caller cancels the context it passed to Watch / WatchPrefix.
WatchCancel ==
    /\ ~wctx
    /\ wctx' = TRUE
    /\ UNCHANGED <<storeVars, repoVars, histVars, wpc, wreq, wresp, wc, ch, initq, rpc, rbatch, delivered>>

\* Another user of the store puts or deletes a key while the watch runs.
WriterPut(key, val) ==
    /\ Len(log) < MaxRev
    /\ StorePut(key, val, NoLease)
    /\ Wrote(key, "Put", val)
    /\ UNCHANGED <<repoVars, watchVars>>

WriterDelete(key) ==
    /\ Len(log) < MaxRev
    /\ kv[key].live
    /\ StoreDelete(key)
    /\ Wrote(key, "Delete", <<>>)
    /\ UNCHANGED <<repoVars, watchVars>>

\* -------------------------------------------------------- specifications

vars == <<kv, log, pc, res, hb, lease, ka, closedCh, cctx, lastOp, prev,
          wpc, wreq, wresp, wctx, wc, ch, initq, rpc, rbatch, delivered>>

Init ==
    /\ kv = [k \in Keys |-> Absent]
    /\ log = <<>>
    /\ pc = [c \in Clients |-> "idle"]
    /\ res = [c \in Clients |-> NoResult]
    /\ hb = [c \in Clients |-> NoHeartbeat]
    /\ lease = [c \in Clients |-> NoGrant]
    /\ ka = [c \in Clients |-> "off"]
    /\ closedCh = [c \in Clients |-> NoChan]
    /\ cctx = [c \in Clients |-> FALSE]
    /\ lastOp = [k \in Keys |-> [op |-> "none", val |-> <<>>]]
    /\ prev = [c \in Clients |-> NoResult]
    /\ wpc = "idle"
    /\ wreq = [prefix |-> FALSE, key |-> <<>>]
    /\ wresp = NoResponse
    /\ wctx = FALSE
    /\ wc = [state |-> "none", next |-> 0]
    /\ ch = NoChannel
    /\ initq = <<>>
    /\ rpc = "off"
    /\ rbatch = <<>>
    /\ delivered = <<>>

NextKV ==
    \E c \in Clients :
        \/ \E k \in Keys : Get(c, k)
        \/ \E k \in Keys, v \in Vals : Put(c, k, v)
        \/ \E k \in Keys : Delete(c, k)
        \/ \E k \in Keys, v \in Vals : DeleteWithValue(c, k, v)
        \/ Return(c)

SpecKV == Init /\ [][NextKV]_vars

NextLease ==
    \/ \E c \in Clients :
        \/ \E k \in LeaseKeys, v \in LeaseVals(c) : HeartbeatGrant(c, k, v)
        \/ HeartbeatPut(c)
        \/ \E k \in LeaseKeys, v \in LeaseVals(c) : PutIfNotExistGrant(c, k, v)
        \/ PutIfNotExistTxn(c)
        \/ KeepAliveRenew(c)
        \/ \E why \in {"canceled", "expired", "stream"} : KeepAliveExit(c, why)
        \/ Cancel(c)
        \/ LeaseExpire(c)
        \/ \E k \in LeaseKeys : Get(c, k)
        \/ Return(c)
    \/ Tick

SpecLease == Init /\ [][NextLease]_vars

\* The keepalive goroutine is scheduled: it sees a canceled context and a lost
\* lease.  Nothing says the renewal stream ever fails.
FairLease ==
    /\ SpecLease
    /\ \A c \in Clients : WF_vars(KeepAliveExit(c, "canceled"))
    /\ \A c \in Clients : WF_vars(KeepAliveExit(c, "expired"))

\* As FairLease, and the store's clock runs and the store expires the leases that
\* are due.  Nothing says a renewal ever reaches the store.
FairLeaseClock ==
    /\ FairLease
    /\ WF_vars(Tick)
    /\ \A c \in Clients : WF_vars(LeaseExpire(c))

\* The steps of the call and of the relay goroutine.
WatchStep == WatchOpen \/ WatchReturn \/ NotifySend \/ NotifyCanceled \/ RelayRecv

\* The call, the relay, the raw stream and the caller.
WatchNext ==
    \/ \E prefix \in BOOLEAN, k \in Keys : WatchGet(prefix, k)
    \/ WatchOpen
    \/ NotifySend
    \/ NotifyRecv
    \/ NotifyCanceled
    \/ WatchReturn
    \/ RelayRecv
    \/ StreamError
    \/ StreamClose
    \/ StreamCanceled
    \/ ConsumerRecv
    \/ WatchCancel

NextWatch ==
    \/ WatchNext
    \/ \E k \in Keys, v \in Vals : WriterPut(k, v)
    \/ \E k \in Keys : WriterDelete(k)

SpecWatch == Init /\ [][NextWatch]_vars

NextWatchLive ==
    \/ WatchNext
    \/ Len(log) < MaxLiveRev /\ \E k \in Keys, v \in Vals : WriterPut(k, v)
    \/ Len(log) < MaxLiveRev /\ \E k \in Keys : WriterDelete(k)

\* The call and the relay goroutine are scheduled, and the etcd client closes the
\* stream of a canceled context; the caller need not read.
FairWatch == Init /\ [][NextWatchLive]_vars /\ WF_vars(WatchStep) /\ WF_vars(StreamCanceled)

\* As FairWatch, with a caller that reads whatever the channel offers.
FairWatchRead == FairWatch /\ WF_vars(ConsumerRecv \/ NotifyRecv)

\* The whole program: the three parts side by side.  The claims are checked under
\* the specification of the part they are about, where the store takes the same
\* steps.
Next == NextKV \/ NextLease \/ NextWatch

Spec == Init /\ [][Next]_vars

\* ------------------------------------------------------------------ claims

\* A step in which client c's call returns.
CallReturns(c, op) == pc[c] = "idle" /\ pc'[c] = "done" /\ res'[c].op = op

\* C5: DeleteWithValue(K,V) without transport error returns succeeded=true if and
\* only if the value stored at K when the transaction executes equals V; when it
\* returns true K is absent right after the transaction, and when it returns false
\* the store is left unchanged (and the error is nil).
C5_DeleteWithValueIff ==
    [][\A c \in Clients :
        (CallReturns(c, "DeleteWithValue") /\ res'[c].err = "nil") =>
            LET k == res'[c].key
                v == res'[c].arg
            IN  /\ res'[c].ok <=> (kv[k].live /\ kv[k].value = v)
                /\ res'[c].ok => (~kv'[k].live /\ log' = Append(log, DeleteEvent(k)))
                /\ ~res'[c].ok => (kv' = kv /\ log' = log)]_vars

\* C5's case: a DeleteWithValue that succeeded and one that did not, side by side.
C5_Witness ==
    \E a, b \in Clients :
        /\ res[a].op = "DeleteWithValue" /\ res[a].err = "nil" /\ res[a].ok
        /\ res[b].op = "DeleteWithValue" /\ res[b].err = "nil" /\ ~res[b].ok
        /\ res[b].key = res[a].key /\ res[b].arg # res[a].arg

\* Two completed DeleteWithValue(K,V) calls, a's transaction first, K holding V when
\* a's transaction ran and nobody else writing K until b's transaction ran.
RacingDeletes(a, b) ==
    /\ a # b
    /\ res[a].op = "DeleteWithValue" /\ res[a].err = "nil"
    /\ res[b].op = "DeleteWithValue" /\ res[b].err = "nil"
    /\ res[a].key = res[b].key /\ res[a].arg = res[b].arg
    /\ res[a].at <= res[b].at
    /\ LET s == StateAt(res[a].at)[res[a].key]
       IN  s.live /\ s.value = res[a].arg
    /\ \A i \in (res[a].at + 2)..res[b].at : log[i].key # res[a].key

\* C6: when several callers concurrently call DeleteWithValue(K,V) on a key that
\* holds V and nothing else writes K in between, exactly one of them returns
\* succeeded=true (the one whose transaction ran first) and the others false.
C6_OneDeleteWins ==
    \A a, b \in Clients : RacingDeletes(a, b) => (res[a].ok /\ ~res[b].ok)

\* C6's case: two such calls have returned.
C6_Witness ==
    \E a, b \in Clients : RacingDeletes(a, b) /\ res[a].ok /\ ~res[b].ok

\* What Get(K) must return after the last call that wrote K.
ExpectedGet(k) ==
    IF lastOp[k].op = "Put" /\ Len(lastOp[k].val) # 0
    THEN [val |-> lastOp[k].val, err |-> "nil"]
    ELSE IF lastOp[k].op = "Put" THEN [val |-> <<>>, err |-> "Empty"]
    ELSE [val |-> <<>>, err |-> "NotExist"]

\* C9: Get(K) returns a not-found error when K is absent, an empty-value error when
\* K is present with a zero-length value, and otherwise the stored value; so after
\* Puts and Deletes of K, Get(K) returns the last Put's value if the last call was a
\* Put (an empty-value error if that value was empty) and not-found if it was a
\* Delete.
C9_GetAfterPutDelete ==
    [][\A c \in Clients :
        (CallReturns(c, "Get") /\ res'[c].err # "transport") =>
            LET k == res'[c].key
                got == [val |-> res'[c].val, err |-> res'[c].err]
            IN  /\ ~kv[k].live => got = [val |-> <<>>, err |-> "NotExist"]
                /\ (kv[k].live /\ Len(kv[k].value) = 0) => got = [val |-> <<>>, err |-> "Empty"]
                /\ (kv[k].live /\ Len(kv[k].value) # 0) => got = [val |-> kv[k].value, err |-> "nil"]
                /\ lastOp[k].op \in {"Put", "Delete"} => got = ExpectedGet(k)]_vars

\* C9's case: a Get that returned a value put over an earlier, different write, and
\* a Get that found nothing after a Delete.
C9_Witness ==
    \E a, b \in Clients :
        /\ res[a].op = "Get" /\ res[a].err = "nil" /\ res[a].val # <<>>
        /\ lastOp[res[a].key].op = "Put" /\ res[a].at >= 2
        /\ res[b].op = "Get" /\ res[b].err = "NotExist"
        /\ lastOp[res[b].key].op = "Delete" /\ kv[res[a].key].live

\* Two completed PutIfNotExist calls for the same key, a's transaction first, the
\* key absent when a's transaction ran and nobody else writing it until b's ran.
RacingPuts(a, b) ==
    /\ a # b
    /\ res[a].op = "PutIfNotExist" /\ res[a].err = "nil"
    /\ res[b].op = "PutIfNotExist" /\ res[b].err = "nil"
    /\ res[a].key = res[b].key
    /\ res[a].at <= res[b].at
    /\ ~StateAt(res[a].at)[res[a].key].live
    /\ \A i \in (res[a].at + 2)..res[b].at : log[i].key # res[a].key

\* C4: when callers concurrently call PutIfNotExist for the same absent key, with
\* no transport error, exactly one call (the one whose transaction ran first)
\* returns success=true with a non-nil Closed channel, and every other returns
\* success=false with a nil channel and a nil error, and starts no keepalive task.
C4_OnePutWins ==
    \A a, b \in Clients :
        RacingPuts(a, b) =>
            /\ res[a].ok /\ res[a].ch /\ closedCh[a].made
            /\ ~res[b].ok /\ ~res[b].ch /\ ~closedCh[b].made /\ ka[b] = "off"

\* C4's case: two racing calls have returned, both leases granted before either
\* transaction ran.
C4_Witness ==
    \E a, b \in Clients :
        /\ RacingPuts(a, b) /\ res[a].ok /\ ~res[b].ok
        /\ lease[a].state # "none" /\ lease[b].state # "none"

\* C8: canceling the context passed to a successful Heartbeat or a winning
\* PutIfNotExist eventually stops the keepalive task and closes the returned Closed
\* channel; the channel is closed exactly once, and never while the keepalive task
\* is still running.
C8_ClosedOnCancel ==
    \A c \in Clients :
        /\ [](closedCh[c].closes <= 1)
        /\ [](closedCh[c].closes = 1 => ka[c] = "stopped")
        /\ [](res[c].ch => closedCh[c].made)
        /\ (cctx[c] /\ closedCh[c].made) ~> (ka[c] = "stopped" /\ closedCh[c].closes = 1)

\* C8's case: the context was canceled while the task ran, and the channel is
\* closed.
C8_Witness ==
    \E c \in Clients :
        /\ cctx[c] /\ closedCh[c].made /\ closedCh[c].closes = 1 /\ ka[c] = "stopped"
        /\ lease[c].state = "granted"

\* Everything sent on the watch channel so far, in order: what the caller has
\* received and what waits in the buffer.
Sent == delivered \o ch.buf

\* The events among them that the relay sent for raw notifications.
LiveSent ==
    LET n == Len(InitEvents(wreq, wresp))
        isEvent(e) == e.Err = "nil"
    IN  SelectSeq(SubSeq(Sent, n + 1, Len(Sent)), isEvent)

\* The events of the mutations of the watched keys committed after revision r.
ChangesAfter(r) ==
    LET raw == RawEvents(wreq, r + 1, Revision)
    IN  [i \in 1..Len(raw) |-> Convert(raw[i])]

\* C1: a WatchPrefix(P) call whose context is not canceled returns a channel on
\* which the caller receives exactly one Modify Event per key under P that was live
\* at the snapshot read, before any Event of a later change.  The call can always
\* take its next step without a cancellation, and the channel it returned carries
\* the snapshot's events first.
C1_PrefixSnapshotDelivered ==
    /\ (wreq.prefix /\ wpc \in {"got", "init"} /\ ~wctx) =>
            ENABLED (WatchOpen \/ NotifySend \/ NotifyRecv \/ WatchReturn)
    /\ (wreq.prefix /\ wpc = "returned") =>
            LET first == [i \in 1..Len(wresp.Kvs) |->
                            Event("Modify", wresp.Kvs[i].Key, wresp.Kvs[i].Value)]
            IN  IsPrefix(first, Sent) \/ IsPrefix(Sent, first)

\* C2: once an Event with a non-nil Err has been delivered on a watch channel, no
\* further Event (of a change, or a second Err) is delivered on it, and the channel
\* is closed when the relay has ended.
C2_NothingAfterErr ==
    /\ \A i \in 1..Len(delivered) : delivered[i].Err # "nil" => i = Len(delivered)
    /\ (rpc = "done" /\ \E i \in 1..Len(delivered) : delivered[i].Err # "nil") => ch.closes = 1

C7_CancelClosesChannel ==
    /\ [](ch.closes <= 1)
    /\ (wctx /\ wpc = "returned") ~> (rpc = "done" /\ ch.closes = 1)

\* C7's case: the context was canceled while the relay was blocked sending an
\* event of its batch, and the channel is closed.
C7_Witness ==
    /\ wctx /\ wpc = "returned" /\ rpc = "done" /\ ch.closes = 1
    /\ rbatch # <<>> /\ wc.state = "open"

\* C10: with snapshot revision R, every mutation of a watched key committed at a
\* revision greater than R is relayed as exactly one live Event, in order, and no
\* mutation committed at a revision up to R is relayed as a live Event: the live
\* Events sent are the first of the changes after R, and all of them once the relay
\* waits with nothing pending on the stream.
C10_NoMissNoDuplicate ==
    wpc = "returned" =>
        /\ IsPrefix(LiveSent, ChangesAfter(wresp.Revision))
        /\ (rpc = "recv" /\ wc.state = "open" /\ RawEvents(wreq, wc.next, Revision) = <<>>) =>
                LiveSent = ChangesAfter(wresp.Revision)

\* C10's case: a watched key was written at the snapshot revision, a writer got in
\* between the snapshot read and the relay's start, and two later changes were
\* relayed.
C10_Witness ==
    /\ wpc = "returned" /\ wresp.Revision >= 1
    /\ InRange(wreq.key, wreq.prefix, log[wresp.Revision].key)
    /\ Len(ChangesAfter(wresp.Revision)) = 2
    /\ LiveSent = ChangesAfter(wresp.Revision)
    /\ Len(delivered) >= 2

\* The step in which Watch / WatchPrefix, its snapshot read done, opens the stream,
\* makes the channel and has its initial events to send.
Synthesizes == wpc = "got" /\ wpc' = "init"

BoundTo(k, c) == kv[k].live /\ kv[k].lease = c

\* C12: after a successful Heartbeat(K,V,ttl), K stays present with value V while
\* renewals keep arriving: it leaves the store's lease only when the lease's ttl has
\* run out without a renewal and the store expires it, or when another call writes
\* K.  When the keepalive task has stopped renewing (its context canceled, or the
\* task ended), the ttl runs out, the store expires the lease and deletes K, and a
\* Get(K) made after that, nobody having written K again, returns not-found.
C12_LeaseExpiryDeletesKey ==
    /\ [](\A c \in Clients :
            (res[c].op = "Heartbeat" /\ res[c].err = "nil" /\ lease[c].state = "granted"
                /\ BoundTo(res[c].key, c)) => kv[res[c].key].value = res[c].arg)
    /\ [](\A c \in Clients, k \in Keys : lease[c].state = "expired" => ~BoundTo(k, c))
    /\ [][\A c \in Clients, k \in Keys :
            (BoundTo(k, c) /\ kv'[k] # kv[k]) =>
                \/ lease[c].state = "granted" /\ lease[c].ttl = 0
                        /\ lease'[c].state = "expired" /\ ~kv'[k].live
                \/ lastOp'[k].op \in {"Heartbeat", "PutIfNotExist", "Put", "Delete"}
                        /\ log' # log]_vars
    /\ [][\A g \in Clients :
            (CallReturns(g, "Get") /\ lastOp[res'[g].key].op = "LeaseExpire") =>
                res'[g].err \in {"NotExist", "transport"}]_vars
    /\ \A c \in Clients :
            (closedCh[c].made /\ lease[c].state = "granted" /\ (cctx[c] \/ ka[c] = "stopped"))
                ~> (lease[c].state = "expired" /\ \A k \in Keys : ~BoundTo(k, c))

\* C12's case: a Heartbeat succeeded, its context was canceled and its task stopped,
\* the lease expired and took the key, and another client's Get found nothing.
C12_Witness ==
    \E c, g \in Clients :
        /\ c # g
        /\ closedCh[c].made /\ hb[c].key = res[g].key /\ lastOp[hb[c].key].val = <<>>
        /\ lastOp[hb[c].key].op = "LeaseExpire" /\ lease[c].state = "expired"
        /\ cctx[c] /\ ka[c] = "stopped"
        /\ res[g].op = "Get" /\ res[g].err = "NotExist" /\ res[g].at >= 2

\* Nobody has written key k since revision r.
Unwritten(k, r) == \A i \in (r + 1)..Len(log) : log[i].key # k

\* C13: a PutIfNotExist call that returns success=false (and no error) has not
\* modified the store: K holds what it held, the value of the call that won it; no
\* Closed channel is made and no keepalive task is started for the loser, then or
\* later; and the loser's subsequent Get(K), K not written since, returns that
\* value, not the loser's.
C13_LoserLeavesKey ==
    /\ [][\A c \in Clients :
            (pc[c] = "pineGranted" /\ pc'[c] = "done" /\ Lost(res'[c])) =>
                /\ kv' = kv /\ log' = log
                /\ kv[res'[c].key].live /\ kv[res'[c].key].lease # c
                /\ kv[res'[c].key].value = lastOp[res'[c].key].val
                /\ ~res'[c].ch /\ ~closedCh'[c].made /\ ka'[c] = "off"]_vars
    /\ [](\A c \in Clients :
            (Lost(res[c]) \/ Lost(prev[c])) => (ka[c] = "off" /\ ~closedCh[c].made))
    /\ [][\A c \in Clients :
            (CallReturns(c, "Get") /\ Lost(prev[c]) /\ res'[c].key = prev[c].key
                /\ Unwritten(prev[c].key, prev[c].at) /\ res'[c].err # "transport") =>
                    /\ res'[c].err = "nil"
                    /\ res'[c].val = StateAt(prev[c].at)[prev[c].key].value
                    /\ res'[c].val # prev[c].arg]_vars

\* C13's case: a caller lost the race for K to a PutIfNotExist of another value,
\* then read K and got the winner's value.
C13_Witness ==
    \E c \in Clients :
        /\ Lost(prev[c]) /\ res[c].op = "Get" /\ res[c].key = prev[c].key
        /\ res[c].err = "nil" /\ res[c].val # prev[c].arg
        /\ lastOp[res[c].key].op = "PutIfNotExist" /\ lastOp[res[c].key].val = res[c].val
        /\ lease[c].state = "granted"

\* The Err-bearing Events among a sequence of Events.
ErrEvents(seq) ==
    LET isErr(e) == e.Err # "nil"
    IN  SelectSeq(seq, isErr)

\* C14: when the raw stream reports an error or is closed by the store, the context
\* not canceled and the caller reading, the relay delivers exactly one Err-bearing
\* Event, the last Event before the channel is closed; and the channel is never
\* closed by the relay without an Err Event before it unless the context was
\* canceled.
C14_OneFinalErr ==
    (wpc = "returned" /\ rpc = "done" /\ ~wctx) =>
        /\ ch.closes = 1
        /\ Len(ErrEvents(Sent)) = 1
        /\ Sent[Len(Sent)].Err # "nil"

\* The revisions after the snapshot's that the relay has taken from the raw stream
\* and at which a watched key was written, in increasing order.
TakenRevisions ==
    LET hit(r) == r > wresp.Revision /\ r < wc.next /\ InRange(wreq.key, wreq.prefix, log[r].key)
    IN  SelectSeq([r \in 1..Len(log) |-> r], hit)

\* C15: on one watch channel the live Events are delivered in the order the raw
\* stream produced them: the j-th live Event sent is the Event of the j-th revision
\* taken from the stream (so they are in increasing revision order, batch after
\* batch), and inside a batch the notifications still to relay are those of the
\* last revisions taken, in their order.
C15_RelayedInRevisionOrder ==
    wpc = "returned" =>
        /\ Len(LiveSent) <= Len(TakenRevisions)
        /\ \A j \in 1..Len(LiveSent) : LiveSent[j] = Convert(log[TakenRevisions[j]])
        /\ \A i, j \in 1..Len(TakenRevisions) : i < j => TakenRevisions[i] < TakenRevisions[j]
        /\ rpc = "events" =>
                /\ Len(LiveSent) + Len(rbatch) = Len(TakenRevisions)
                /\ \A k \in 1..Len(rbatch) : rbatch[k] = log[TakenRevisions[Len(LiveSent) + k]]
        /\ rpc = "recv" => Len(LiveSent) = Len(TakenRevisions)

\* C15's case: the caller has received two different live Events, of different
\* keys, and the relay is about to send a third, of the last revision it took.
C15_Witness ==
    /\ wpc = "returned" /\ Len(TakenRevisions) = 3
    /\ Len(delivered) = 2 /\ LiveSent = delivered
    /\ rpc = "events" /\ Len(rbatch) = 1
    /\ delivered[1] # delivered[2] /\ Convert(rbatch[1]) # delivered[2]
    /\ delivered[1].Key # delivered[2].Key

\* C16: if a setup step of Watch / WatchPrefix fails (the snapshot read returns an
\* error, or the send of an initial event is aborted because the context is
\* canceled), the call returns an error and no channel: the caller receives
\* nothing, the relay is never started, and the channel, if it was made, has been
\* closed exactly once (never twice).  The call fails only in these two ways.
C16_FailedSetup ==
    /\ [](ch.closes <= 1)
    /\ [](wpc = "failed" =>
            /\ rpc = "off" /\ delivered = <<>>
            /\ ch.made => (ch.closes = 1 /\ wctx /\ initq # <<>>)
            /\ ~ch.made => ch.closes = 0)
    /\ [][(wpc # "failed" /\ wpc' = "failed") =>
            \/ wpc = "idle" /\ ~ch'.made
            \/ wpc = "init" /\ initq # <<>> /\ wctx /\ ch'.closes = ch.closes + 1]_vars
    /\ [][wpc = "failed" => (wpc' = "failed" /\ rpc' = "off" /\ ch' = ch)]_vars

\* C16's case: WatchPrefix had two initial events to send, the context was canceled
\* during the send of the first, and the call closed the channel and returned an
\* error.
C16_Witness ==
    /\ wpc = "failed" /\ wreq.prefix /\ wctx
    /\ ch.made /\ ch.closes = 1 /\ rpc = "off"
    /\ Len(initq) = 2 /\ Len(wresp.Kvs) = 2

\* C17: a Heartbeat or PutIfNotExist call that returns an error (its lease grant
\* failed, or its put or transaction did) returns no channel, and success=false,
\* and has started no keepalive task and made no Closed channel.
C17_SetupErrorStartsNothing ==
    \A c \in Clients :
        (res[c].op \in {"Heartbeat", "PutIfNotExist"} /\ res[c].err # "nil") =>
            /\ ~res[c].ch /\ ~res[c].ok
            /\ ka[c] = "off" /\ ~closedCh[c].made /\ closedCh[c].closes = 0
            /\ \A k \in Keys : ~BoundTo(k, c)

\* C17's case: a Heartbeat whose lease grant failed, and a PutIfNotExist whose
\* lease was granted and whose transaction failed.
C17_Witness ==
    \E a, b \in Clients :
        /\ res[a].op = "Heartbeat" /\ res[a].err # "nil" /\ lease[a].state = "none"
        /\ res[b].op = "PutIfNotExist" /\ res[b].err # "nil" /\ lease[b].state = "granted"

\* C18: in point Watch the send of the initial Event never blocks: the channel has
\* room for one Event and the call queues at most one, so the buffer always has
\* room for what the call has still to send; the call fails only when its context
\* is canceled; and it always comes to return, its channel if the context is not
\* canceled, the initial Event waiting in the buffer, without anyone receiving.
C18_InitialSendNeverBlocks ==
    /\ []((~wreq.prefix /\ wpc = "init") =>
            (ch.cap = 1 /\ Len(ch.buf) + Len(initq) <= ch.cap /\ delivered = <<>>))
    /\ [][(~wreq.prefix /\ wpc = "init" /\ wpc' # "init") =>
            \/ wpc' = "returned" /\ ch'.buf = InitEvents(wreq, wresp) /\ ch'.closes = 0
            \/ wpc' = "failed" /\ wctx]_vars
    /\ (~wreq.prefix /\ wpc = "got") ~> (wpc = "returned" \/ (wpc = "failed" /\ wctx))

\* C18's case: Watch has returned its channel, the initial Event is in the buffer,
\* nobody has received anything, and the context is not canceled.
C18_Witness ==
    /\ ~wreq.prefix /\ wpc = "returned" /\ ~wctx
    /\ Len(ch.buf) = 1 /\ ch.buf = InitEvents(wreq, wresp)
    /\ delivered = <<>> /\ rpc = "recv"

\* C19: while the context is not canceled the relay drops no Event.  It leaves a
\* notification of its batch only by sending its Event on the channel; it takes
\* the next response from the stream only when the Events of all it took before
\* have been sent, the caller having received all of them but the one that may
\* wait in the buffer of point Watch; with the channel full and nobody receiving
\* it can take no step (it blocks); and it ends with a notification unsent only
\* when the context is canceled.
C19_NoEventDropped ==
    /\ [][(wpc = "returned" /\ rbatch' # rbatch /\ rpc = "events") =>
            /\ rbatch' = Tail(rbatch)
            /\ delivered' \o ch'.buf = Append(Sent, Convert(Head(rbatch)))]_vars
    /\ [][(rpc = "recv" /\ rpc' # "recv") =>
            /\ Len(LiveSent) = Len(TakenRevisions)
            /\ Len(ch.buf) <= ch.cap
            /\ ch.cap = 0 => LiveSent = SelectSeq(delivered, LAMBDA e : e.Err = "nil")]_vars
    /\ []((rpc = "events" /\ Len(ch.buf) = ch.cap /\ ~wctx) =>
            ~ENABLED (NotifySend \/ NotifyCanceled \/ RelayRecv))
    /\ []((wpc = "returned" /\ rpc = "done" /\ Len(LiveSent) < Len(TakenRevisions)) => wctx)

\* C19's case: the caller is slow.  It has received one live Event, the next waits
\* in the buffer, and the relay is blocked sending the third: the context is not
\* canceled and nothing has been skipped.
C19_Witness ==
    /\ wpc = "returned" /\ ~wctx /\ rpc = "events" /\ rbatch # <<>>
    /\ Len(ch.buf) = 1 /\ ch.buf[1].Err = "nil"
    /\ Len(delivered) >= 1 /\ delivered[Len(delivered)].Err = "nil"
    /\ Len(LiveSent) = 2 /\ Len(TakenRevisions) = 3

\* Client c's PutIfNotExist returned success=true; the call that did.
Holds(c) == Won(res[c]) \/ Won(prev[c])

WinOf(c) == IF Won(res[c]) THEN res[c] ELSE prev[c]

\* C20: a PutIfNotExist(K) returns success=true exactly when K was absent at its
\* transaction, and K is then under its lease.  After the winner's context is
\* canceled its renewals stop, the ttl runs out, and the store expires the lease
\* and removes K, so that a later PutIfNotExist(K) of another caller finds K absent
\* and wins.  Never do two callers hold success=true for K, both keepalive tasks
\* running, with K still under the earlier winner's lease: that lease has expired.
C20_WinAfterExpiry ==
    /\ [][\A c \in Clients :
            (pc[c] = "pineGranted" /\ pc'[c] = "done" /\ res'[c].err = "nil") =>
                /\ res'[c].ok <=> ~kv[res'[c].key].live
                /\ res'[c].ok => (kv'[res'[c].key] = Entry(res'[c].arg, c)
                                    /\ ka'[c] = "running")]_vars
    /\ [](\A a, b \in Clients :
            (Holds(a) /\ Holds(b) /\ WinOf(a).key = WinOf(b).key
                /\ WinOf(a).at < WinOf(b).at /\ ka[a] = "running" /\ ka[b] = "running") =>
                    (~BoundTo(WinOf(a).key, a) /\ lease[a].state = "expired"))
    /\ \A c \in Clients :
            (Holds(c) /\ cctx[c] /\ lease[c].state = "granted")
                ~> (lease[c].state = "expired" /\ \A k \in Keys : ~BoundTo(k, c))

\* C20's case: the first winner's context was canceled, its task stopped and its
\* lease expired; another caller's later PutIfNotExist won the key, which is now
\* under its lease with its value.
C20_Witness ==
    \E a, b \in Clients :
        /\ Holds(a) /\ Holds(b) /\ WinOf(a).key = WinOf(b).key
        /\ WinOf(a).at < WinOf(b).at
        /\ cctx[a] /\ ka[a] = "stopped" /\ lease[a].state = "expired"
        /\ ka[b] = "running"
        /\ kv[WinOf(b).key] = Entry(WinOf(b).arg, b) /\ WinOf(b).arg # WinOf(a).arg

====
